---- MODULE Spec2Model ----
(***************************************************************************)
(* Synthetic learning-curve priors of ifBO (PFNs4HPO):                     *)
(*   priors/hpo_lc_pfn_bnn3c.py              DatasetPrior, MyRNG, get_batch *)
(*   priors/multicurves_with_configurations.py   get_batch (orderings,     *)
(*                                               load_path chunk cache)    *)
(*                                                                         *)
(* Real numbers that no condition of the code reads (network weights,      *)
(* configurations, curve values) are kept as tokens naming where they come *)
(* from.  A progress position k/n_levels is the pair <<k, n_levels>>.      *)
(* Arrays indexed from 0 in the source are functions on 0..n-1; Python     *)
(* lists that are appended to are sequences.                               *)
(***************************************************************************)
EXTENDS FiniteSets, Integers, Sequences, TLC

(***************************************************************************)
(* Bounds of the model.                                                    *)
(***************************************************************************)
MaxBatch == 2
MaxSeqLen == 3
MaxCells == 4
MaxFeatures == 4
MaxLevels == 2
MaxNDatasets == 1
MaxCurves == 2
MaxEpochs == 2
MaxSteps == 5
MaxDraws == 1
MaxChunkSize == 2
MaxChunks == 2
MaxServed == 3
MaxSamples == 6
MaxEvaluations == 3
MaxLoss == 2
MaxThreads == 2

(***************************************************************************)
(* Program constants.                                                      *)
(***************************************************************************)
Pow3Outputs == 3
CombOutputs == 24

\* Python's None, for a variable that otherwise holds an array or a list
None == <<>>

VARIABLES
    output_sorted,      \* hpo_lc_pfn_bnn3c.DatasetPrior.output_sorted (class attribute)
    table_shape,        \* <<num_inputs, num_outputs>> of the network that built output_sorted
    pc,                 \* position of the get_batch call
    args,               \* arguments of the running get_batch call
    num_params,         \* get_batch local
    dataset_prior,      \* get_batch local: the DatasetPrior instance
    x, y,               \* get_batch locals: lists of per-element tensors
    n_levels, ordering, cutoff_per_curve, epochs_per_curve, curve_xs,
    id_curve, epoch, config, curve_val, curve_counters,
    result,             \* the Batch returned by the last call
    rng_seeded,         \* the random generators have been seeded explicitly
    rng_tape,           \* the stream the seed fixes, as far as it has been drawn
    rng_pos,            \* number of draws made since the last seeding
    rng_aligned,        \* the draws since the last seeding are those on the tape
    get_batch_attrs,    \* attributes of multicurves get_batch: seq_counter, loaded_chunk_*
    call_state,         \* generator and process state the running call started from
    reference,          \* the caller's record of the first call it made after seeding
    threads,            \* per thread constructing a DatasetPrior: position and locals
    builds,             \* number of assignments to DatasetPrior.output_sorted by threads
    neps,               \* the call of neps.run: its position, arguments and locals
    trainer,            \* a training loop reading batches from chunk files
    files,              \* the files the post-evaluation hook keeps in the root directory
    mc_output_sorted,   \* multicurves_with_configurations.DatasetPrior.output_sorted
    dataset,            \* multicurves get_batch local: the DatasetPrior instance
    curves, ids, cutoff,\* multicurves get_batch locals
    i,                  \* multicurves get_batch: index of the ordering loop
    prior,              \* a DatasetPrior instance held by a caller of the class
    returned            \* what the last method called on it returned

gbLocals == <<n_levels, ordering, cutoff_per_curve, epochs_per_curve, curve_xs,
              id_curve, epoch, config, curve_val, curve_counters>>
gbVars == <<pc, args, num_params, dataset_prior, x, y, gbLocals, result>>
tableVars == <<output_sorted, table_shape>>
rngVars == <<rng_seeded, rng_tape, rng_pos, rng_aligned>>
mcVars == <<mc_output_sorted, dataset, curves, ids, cutoff, i>>
priorVars == <<prior, returned>>
detVars == <<get_batch_attrs, call_state, reference>>
threadVars == <<threads, builds>>
callerVars == <<trainer, files>>
vars == <<tableVars, gbVars, rngVars, mcVars, priorVars, detVars, threadVars, neps,
          callerVars>>

(***************************************************************************)
(* Helpers on sequences and arrays.                                        *)
(***************************************************************************)
Range(f) == {f[d] : d \in DOMAIN f}

Zeros(n) == [j \in 0..(n - 1) |-> 0]

\* sequences of length k of pairwise distinct elements of S
\* (np.random.choice(S, size=k, replace=False): any order)
WithoutReplacement(S, k) ==
    {s \in [1..k -> S] : \A j, l \in 1..k : j # l => s[j] # s[l]}


(***************************************************************************)
(* The seeded random stream.  np.random and torch draw from generators     *)
(* whose stream is fixed by the seed: after seeding with the same seed the *)
(* same sequence of draws returns the same values again.  rng_tape holds   *)
(* the draws of the first seeded call, the one later calls are compared    *)
(* with.  A later draw made after the same draws as on the tape, and of    *)
(* the same kind as the next one there, returns the value recorded there;  *)
(* once a call draws another kind of quantity than the tape holds, or      *)
(* reads past its end, the generators are in a state the tape says nothing *)
(* about and the draws are free.  Without explicit seeding every draw is   *)
(* free.                                                                   *)
(***************************************************************************)
\* a draw of the quantity name with the parameters of, which returned val
Drawn(name, of, val) == [name |-> name, of |-> of, val |-> val]

SameKind(d, e) == d.name = e.name /\ d.of = e.of

\* the first k draws of ds are the draws the tape holds from rng_pos on
OnTape(ds, k) ==
    /\ rng_aligned
    /\ rng_pos + k <= Len(rng_tape)
    /\ \A m \in 1..k : SameKind(rng_tape[rng_pos + m], ds[m])

\* the stream is being recorded: no seeded call has returned yet
Recording == reference = None

\* mutant: generators that pay no attention to the seed
SeedIgnored(ds) == TRUE

\* the values the seed fixes for the draws ds
SeedFixes(ds) ==
    \A k \in 1..Len(ds) : OnTape(ds, k) => ds[k].val = rng_tape[rng_pos + k].val

Draw(ds) ==
    IF rng_seeded
    THEN /\ UNCHANGED rng_seeded
         /\ rng_pos' = rng_pos + Len(ds)
         /\ IF Recording /\ rng_aligned /\ rng_pos = Len(rng_tape)
            THEN /\ rng_tape' = rng_tape \o ds
                 /\ UNCHANGED rng_aligned
            ELSE /\ SeedFixes(ds)
                 /\ rng_aligned' = OnTape(ds, Len(ds))
                 /\ UNCHANGED rng_tape
    ELSE UNCHANGED rngVars

(***************************************************************************)
(* What a call of get_batch starts from besides its arguments: the state   *)
(* of the generators, and what earlier calls left in the attributes of     *)
(* the class DatasetPrior and of the function get_batch.                   *)
(***************************************************************************)
HiddenState == [output_sorted |-> output_sorted, get_batch_attrs |-> get_batch_attrs]

CallStart ==
    [rng |-> [seeded |-> rng_seeded, pos |-> rng_pos, aligned |-> rng_aligned],
     hidden |-> HiddenState]

(***************************************************************************)
(* hpo_lc_pfn_bnn3c.DatasetPrior                                           *)
(***************************************************************************)
\* self.num_inputs with input_subsampling at its default (True)
NumInputs(np) == 2 * (np + 2)

\* number of entries of the calibration table
TableLen(no, hyper) == hyper.N_datasets * hyper.N_per_dataset * no

\* torch.flatten(output): the sampled network outputs, one arrangement of
\* every multiset over two values (np.sort reads nothing but the multiset)
Samples(n) == {[j \in 1..n |-> IF j <= k THEN 1 ELSE 0] : k \in 0..n}

\* mutant: the table rebuilt by every construction
NeedsBuildAlways(table) == TRUE

\* line 125: the table is built only while the class attribute is None
NeedsBuild(table) == table = None

\* lines 125-140: the outputs sampled by a construction: none once the table
\* of the class is built
SamplesIfNone(table, n) == IF NeedsBuild(table) THEN Samples(n) ELSE {<<>>}

RECURSIVE NpSort(_)
NpSort(a) ==
    IF Len(a) = 0 THEN <<>>
    ELSE LET m == CHOOSE l \in 1..Len(a) : \A j \in 1..Len(a) : a[l] <= a[j]
             rest == [j \in 1..(Len(a) - 1) |-> IF j < m THEN a[j] ELSE a[j + 1]]
         IN <<a[m]>> \o NpSort(rest)

\* DatasetPrior.new_dataset: a fresh network, y0 and allocation for the instance;
\* the field dataset counts the datasets the instance has drawn since its
\* construction and stands for self.model, self.y0, self.input_features, self.alloc
NewDataset(dp) == [dp EXCEPT !.dataset = @ + 1]

\* DatasetPrior.__init__(num_params, num_outputs, hyperparams); sample is the
\* network outputs it draws when it builds the table (one new_dataset each).
\* The class attribute and the instance it leaves behind.
DatasetPriorInit(np, no, hyper, sample) ==
    [table |-> IF NeedsBuild(output_sorted) THEN NpSort(sample) ELSE output_sorted,
     shape |-> IF NeedsBuild(output_sorted) THEN <<NumInputs(np), no>> ELSE table_shape,
     self |-> NewDataset([num_features |-> np, num_outputs |-> no,
                          num_inputs |-> NumInputs(np),
                          hyperparams |-> hyper,
                          dataset |-> 0])]


(***************************************************************************)
(* hpo_lc_pfn_bnn3c.get_batch                                              *)
(***************************************************************************)
Curves(sl) == 0..(sl - 1)

\* mutant: the upper bound of randint taken as inclusive
NumParamsInclusive(nf) == 1..(nf - 1)

\* line 333: np.random.randint(1, num_features - 1), upper bound exclusive
NumParamsChoices(nf) == 1..(nf - 2)

\* lines 335-338: number of network outputs of the curve family
NumOutputs(hyper) == IF hyper.pow3 THEN Pow3Outputs ELSE CombOutputs

\* number of positions among the first n of ordering o that curve cid owns
Owned(o, cid, n) == Cardinality({p \in 1..n : o[p] = cid})

\* line 360: np.repeat(ids, n_levels), as the number of entries of every id
AllLevels(sl, nl) == [cid \in Curves(sl) |-> nl]

\* line 362: np.random.choice(..., size, replace=False): every draw takes one
\* of the entries that are left (every weight p is positive, so any entry
\* can come out); left[cid] is the number of entries of cid not yet drawn
RECURSIVE Choice(_, _)
Choice(left, size) ==
    IF size = 0 THEN {<<>>}
    ELSE UNION {{<<cid>> \o rest : rest \in Choice([left EXCEPT ![cid] = @ - 1], size - 1)} :
                   cid \in {c \in DOMAIN left : left[c] > 0}}

\* mutant: the ids drawn with replacement
OrderingsWithReplacement(sl, nl) == [1..sl -> Curves(sl)]

\* lines 359-362: seq_len draws without replacement from n_levels copies of
\* every curve id
Orderings(sl, nl) == Choice(AllLevels(sl, nl), sl)

\* lines 365-371: the loop over every position (p is the position i + 1)
RECURSIVE CountLoop(_, _, _, _, _)
CountLoop(p, o, sep, cut, ep) ==
    IF p > Len(o) THEN [cutoff_per_curve |-> cut, epochs_per_curve |-> ep]
    ELSE LET cid == o[p]
         IN CountLoop(p + 1, o, sep,
                      IF p - 1 < sep THEN [cut EXCEPT ![cid] = @ + 1] ELSE cut,
                      [ep EXCEPT ![cid] = @ + 1])

\* mutant: np.arange(cutoff), levels counted from 0
ObservationsFromZero(cut) == [k \in 1..cut |-> k - 1]

\* line 386: np.arange(1, cutoff + 1), the observed levels
Observations(cut) == [k \in 1..cut |-> k]

\* mutant: queries drawn from every level, the observed ones included
QueryLevelsAll(cut, nl) == 1..nl

\* line 388: the levels a query can be drawn from
QueryLevels(cut, nl) == (cut + 1)..nl

\* lines 387-390: the draw of query levels of curve cid, without replacement
QuerySet(cid, nl, cut, ep) ==
    IF ep[cid] > 0 /\ cut[cid] < ep[cid]
    THEN WithoutReplacement(QueryLevels(cut[cid], nl), ep[cid] - cut[cid])
    ELSE {<<>>}

\* the draws of the curves 0..n-1, in the order of the loop over every curve
RECURSIVE QueryDrawsUpTo(_, _, _, _)
QueryDrawsUpTo(n, nl, cut, ep) ==
    IF n = 0 THEN {<<>>}
    ELSE {Append(s, d) : s \in QueryDrawsUpTo(n - 1, nl, cut, ep),
                         d \in QuerySet(n - 1, nl, cut, ep)}

QueryDraws(sl, nl, cut, ep) ==
    {[cid \in Curves(sl) |-> s[cid + 1]] : s \in QueryDrawsUpTo(sl, nl, cut, ep)}

\* lines 381-397: x_ of every curve, each level k standing for k / n_levels
CurveXs(sl, nl, cut, ep, q) ==
    [cid \in Curves(sl) |->
        IF ep[cid] > 0
        THEN [k \in 1..ep[cid] |->
                 IF k <= cut[cid] THEN <<Observations(cut[cid])[k], nl>>
                 ELSE <<q[cid][k - cut[cid]], nl>>]
        ELSE None]

\* a curve value: the curve's parameters are read off the calibration table
\* (curves_for_configs, lines 168-176), its level is the position evaluated
CurveValue(table, cid, xv) == <<cid, xv, table>>

\* mutant: the real id given to context records only
IdCurveContextOnly(pos, cid, sep, counters) ==
    IF pos < sep THEN cid + 1 ELSE 0

\* mutant: the real id given only to a curve that has appeared before
IdCurveSeenOnly(pos, cid, sep, counters) ==
    IF counters[cid] > 0 THEN cid + 1 ELSE 0

\* lines 403-406: the id-field of the record at position pos (the source's i)
\* of curve cid
IdCurveAt(pos, cid, sep, counters) ==
    IF pos < sep \/ counters[cid] > 0 THEN cid + 1 ELSE 0

\* lines 400-410: the loop that constructs the batch element (p = i + 1)
RECURSIVE ConstructLoop(_, _, _, _, _, _)
ConstructLoop(p, o, sep, cxs, np, st) ==
    IF p > Len(o) THEN st
    ELSE LET cid == o[p]
             k == st.curve_counters[cid]
         IN ConstructLoop(p + 1, o, sep, cxs, np,
                [id_curve |-> [st.id_curve EXCEPT ![p] = IdCurveAt(p - 1, cid, sep, st.curve_counters)],
                 epoch |-> [st.epoch EXCEPT ![p] = cxs[cid][k + 1]],
                 config |-> [st.config EXCEPT ![p] = [c \in 1..np |-> cid]],
                 curve_val |-> [st.curve_val EXCEPT ![p] =
                                   CurveValue(output_sorted, cid, cxs[cid][k + 1])],
                 curve_counters |-> [st.curve_counters EXCEPT ![cid] = @ + 1]])

\* line 412: torch.cat([torch.stack([id_curve, epoch], dim=1), config], dim=1)
Records(idc, ep, cfg) == [p \in 1..Len(idc) |-> <<idc[p], ep[p]>> \o cfg[p]]

\* lines 415-416: torch.stack(list, dim=1)
StackDim1(l) == [p \in 1..Len(l[1]) |-> [b \in 1..Len(l) |-> l[b][p]]]

\* the hyperparameters read by DatasetPrior and get_batch
Hyperparameters(pow3s, nds) ==
    [pow3 : pow3s, N_datasets : nds, N_per_dataset : {1}]

\* the calls get_batch is made with: the power-law family (the default of
\* hyperparameters.get("pow3", True)), one sampled dataset for the table
Calls ==
    {a \in [batch_size : 1..MaxBatch, seq_len : 1..MaxSeqLen,
             num_features : 1..MaxFeatures, single_eval_pos : 0..MaxSeqLen,
             hyperparameters : Hyperparameters({TRUE}, {1})] :
        /\ a.single_eval_pos <= a.seq_len
        /\ a.batch_size * a.seq_len <= MaxCells}

NoLocals ==
    /\ n_levels' = 0
    /\ ordering' = None
    /\ cutoff_per_curve' = None
    /\ epochs_per_curve' = None
    /\ curve_xs' = None
    /\ id_curve' = None
    /\ epoch' = None
    /\ config' = None
    /\ curve_val' = None
    /\ curve_counters' = None

\* mutant: get_batch without its assertion
PreconditionSkipped(a) == TRUE

\* line 330: assert num_features >= 2
Precondition(a) == a.num_features >= 2

\* lines 319-341: the call, up to the first iteration of the loop over the batch
GetBatchCall(a) ==
    /\ pc = "idle"
    /\ args' = a
    /\ call_state' = CallStart
    /\ UNCHANGED <<result, x, y, gbLocals, mcVars, get_batch_attrs, reference>>
    /\ IF ~Precondition(a)
       THEN /\ pc' = "AssertionError"
            /\ UNCHANGED <<num_params, dataset_prior, tableVars, rngVars>>
       ELSE IF NumParamsChoices(a.num_features) = {}
       THEN /\ pc' = "ValueError"
            /\ UNCHANGED <<num_params, dataset_prior, tableVars, rngVars>>
       ELSE \E np \in NumParamsChoices(a.num_features),
               sample \in SamplesIfNone(output_sorted,
                             TableLen(NumOutputs(a.hyperparameters), a.hyperparameters)) :
                /\ num_params' = np
                /\ \E made \in {DatasetPriorInit(np, NumOutputs(a.hyperparameters),
                                                  a.hyperparameters, sample)} :
                      /\ output_sorted' = made.table
                      /\ table_shape' = made.shape
                      /\ dataset_prior' = made.self
                /\ Draw(<<Drawn("num_params", a.num_features, np)>>
                        \o (IF sample # <<>>
                            THEN <<Drawn("output", <<NumInputs(np), Len(sample)>>, sample)>>
                            ELSE <<>>))
                /\ pc' = "loop"
    /\ UNCHANGED priorVars
    /\ UNCHANGED threadVars
    /\ UNCHANGED <<neps, callerVars>>

\* lines 343-413: one iteration of the loop over the batch
GenerateElement ==
    /\ pc = "loop"
    /\ Len(x) < args.batch_size
    /\ \E nl \in 1..MaxLevels :
       \E o \in Orderings(args.seq_len, nl) :
       \E cnt \in {CountLoop(1, o, args.single_eval_pos,
                              Zeros(args.seq_len), Zeros(args.seq_len))} :
       \E q \in QueryDraws(args.seq_len, nl, cnt.cutoff_per_curve, cnt.epochs_per_curve) :
       \E cxs \in {CurveXs(args.seq_len, nl, cnt.cutoff_per_curve, cnt.epochs_per_curve, q)} :
       \E st \in {ConstructLoop(1, o, args.single_eval_pos, cxs, num_params,
                        [id_curve |-> [p \in 1..args.seq_len |-> 0],
                         epoch |-> [p \in 1..args.seq_len |-> 0],
                         config |-> [p \in 1..args.seq_len |-> [c \in 1..num_params |-> 0]],
                         curve_val |-> [p \in 1..args.seq_len |-> 0],
                         curve_counters |-> Zeros(args.seq_len)])} :
            /\ n_levels' = nl
            /\ ordering' = o
            /\ cutoff_per_curve' = cnt.cutoff_per_curve
            /\ epochs_per_curve' = cnt.epochs_per_curve
            /\ dataset_prior' = NewDataset(dataset_prior)
            /\ curve_xs' = cxs
            /\ id_curve' = st.id_curve
            /\ epoch' = st.epoch
            /\ config' = st.config
            /\ curve_val' = st.curve_val
            /\ curve_counters' = st.curve_counters
            /\ x' = Append(x, Records(st.id_curve, st.epoch, st.config))
            /\ y' = Append(y, st.curve_val)
            /\ Draw(<<Drawn("n_levels", <<>>, nl),
                      Drawn("ordering", <<args.seq_len, nl>>, o),
                      Drawn("queries", <<nl, cnt.cutoff_per_curve, cnt.epochs_per_curve>>, q)>>)
    /\ pc' = "loop"
    /\ UNCHANGED <<tableVars, args, num_params, result, mcVars>>
    /\ UNCHANGED priorVars
    /\ UNCHANGED detVars
    /\ UNCHANGED threadVars
    /\ UNCHANGED <<neps, callerVars>>

\* lines 415-418: the tensors are stacked and returned
ReturnBatch ==
    /\ pc = "loop"
    /\ Len(x) = args.batch_size
    /\ result' = [x |-> StackDim1(x), y |-> StackDim1(y), target_y |-> StackDim1(y)]
    /\ pc' = "returned"
    /\ UNCHANGED <<tableVars, rngVars, args, num_params, dataset_prior, x, y, gbLocals, mcVars>>
    /\ UNCHANGED priorVars
    /\ UNCHANGED detVars
    /\ UNCHANGED threadVars
    /\ UNCHANGED <<neps, callerVars>>

(***************************************************************************)
(* hpo_lc_pfn_bnn3c.DatasetPrior and MyRNG, called method by method by a   *)
(* caller that holds an instance.  The table holds the values 0 and 1; a   *)
(* network output is below, between or above them.                         *)
(***************************************************************************)
RawOutputs == 0..2

\* the output vectors the network returns for a configuration
OutputVectors(no) ==
    {[j \in 1..no |-> v] : v \in RawOutputs}
        \cup {[j \in 1..no |-> (j + s) % 3] : s \in RawOutputs}

\* np.searchsorted(table, v, side='left'): the number of entries below v
SearchSortedLeft(table, v) == Cardinality({j \in 1..Len(table) : table[j] < v})

\* line 169: the indices of every coordinate of the outputs
Indices(table, outputs) ==
    [j \in 1..Len(outputs) |-> SearchSortedLeft(table, outputs[j])]

\* lines 254, 286: (b - a) * indices / len(output_sorted) + a, as the fraction
\* <<numerator, denominator>> of the way from a to b
UniformValue(table, index) == <<index, Len(table)>>

\* mutant: the unit value without the margin eps
UnitValueNoEps(table, index) == <<index, Len(table)>>

\* lines 257-258, 291-292: the same with a = eps, b = 1 - eps, eps = 0.5 / len:
\* (1 - 1/len) * index / len + 0.5 / len, as <<numerator, denominator>>
UnitValue(table, index) ==
    <<2 * (Len(table) - 1) * index + Len(table), 2 * Len(table) * Len(table)>>

Transforms == {"uniform", "normal", "beta", "gamma", "exponential"}

\* lines 252-274, 285-308: uniform returns the fraction, the others the ppf of
\* their distribution at the unit value
TransformValue(kind, table, index) ==
    [kind |-> kind,
     u |-> IF kind = "uniform" THEN UniformValue(table, index)
           ELSE UnitValue(table, index)]

\* lines 173-176: the draws of the power-law family
Pow3Draws == <<"uniform", "normal", "normal">>

\* lines 193-225: the draws of the composite family
CombDraws ==
    <<"uniform">> \o [j \in 1..4 |-> "gamma"] \o [j \in 1..4 |-> "normal"]
        \o <<"normal">> \o [j \in 1..4 |-> "gamma"] \o [j \in 1..4 |-> "uniform"]
        \o [j \in 1..4 |-> "exponential"] \o <<"normal", "normal">>

\* MyRNG(indices): lines 278-283
MyRNG(indices) == [indices |-> indices, counter |-> 0]

\* mutant: a draw that leaves the counter where it is
MyRNGDrawsStuck(kinds, rng, table, acc) ==
    [rng |-> rng,
     values |-> acc \o [k \in 1..Len(kinds) |->
                           TransformValue(kinds[k], table, rng.indices[rng.counter + 1])],
     error |-> FALSE]

\* the draws of the listed kinds from a MyRNG, in order; reading
\* self.indices[self.counter] past the end is an IndexError
RECURSIVE MyRNGDraws(_, _, _, _)
MyRNGDraws(kinds, rng, table, acc) ==
    IF kinds = <<>> THEN [rng |-> rng, values |-> acc, error |-> FALSE]
    ELSE IF rng.counter >= Len(rng.indices)
    THEN [rng |-> rng, values |-> acc, error |-> TRUE]
    ELSE MyRNGDraws(Tail(kinds), [rng EXCEPT !.counter = @ + 1], table,
                    Append(acc, TransformValue(Head(kinds), table,
                                               rng.indices[rng.counter + 1])))

\* <<num_inputs, num_outputs>> of the network of an instance
ShapeOf(self) == <<self.num_inputs, self.num_outputs>>

\* DatasetPrior(num_params, 3 | 24, hyperparams), as get_batch constructs it
PriorConstruct ==
    /\ pc = "idle"
    /\ \E np \in 1..(MaxFeatures - 2),
          hyper \in Hyperparameters(BOOLEAN, {1}) :
       \E sample \in SamplesIfNone(output_sorted, TableLen(NumOutputs(hyper), hyper)) :
       \E made \in {DatasetPriorInit(np, NumOutputs(hyper), hyper, sample)} :
            /\ output_sorted' = made.table
            /\ table_shape' = made.shape
            /\ prior' = made.self
    /\ UNCHANGED <<returned, gbVars, rngVars, mcVars>>
    /\ UNCHANGED detVars
    /\ UNCHANGED threadVars
    /\ UNCHANGED <<neps, callerVars>>

\* prior.new_dataset()
PriorNewDataset ==
    /\ pc = "idle"
    /\ prior # None
    /\ prior.dataset <= MaxBatch
    /\ prior' = NewDataset(prior)
    /\ UNCHANGED <<returned, tableVars, gbVars, rngVars, mcVars>>
    /\ UNCHANGED detVars
    /\ UNCHANGED threadVars
    /\ UNCHANGED <<neps, callerVars>>

\* prior.output_for_config(config)
PriorOutputForConfig ==
    /\ pc = "idle"
    /\ prior # None
    /\ \E outputs \in OutputVectors(prior.num_outputs) :
          returned' = [op |-> "output_for_config", outputs |-> outputs]
    /\ UNCHANGED <<prior, tableVars, gbVars, rngVars, mcVars>>
    /\ UNCHANGED detVars
    /\ UNCHANGED threadVars
    /\ UNCHANGED <<neps, callerVars>>

\* prior.curves_for_configs(configs): lines 166-231
PriorCurvesForConfigs ==
    /\ pc = "idle"
    /\ prior # None
    /\ \E outputs \in OutputVectors(prior.num_outputs) :
       \E drawn \in {MyRNGDraws(IF prior.hyperparams.pow3 THEN Pow3Draws ELSE CombDraws,
                                MyRNG(Indices(output_sorted, outputs)),
                                output_sorted, <<>>)} :
          returned' = [op |-> IF drawn.error THEN "IndexError" ELSE "curves_for_configs",
                       outputs |-> outputs,
                       rng4config |-> drawn.rng, values |-> drawn.values]
    /\ UNCHANGED <<prior, tableVars, gbVars, rngVars, mcVars>>
    /\ UNCHANGED detVars
    /\ UNCHANGED threadVars
    /\ UNCHANGED <<neps, callerVars>>

\* prior.uniform / normal / beta / gamma / exponential (bnn_output)
PriorTransform ==
    /\ pc = "idle"
    /\ prior # None
    /\ \E kind \in Transforms, bnn_output \in RawOutputs :
          returned' = [op |-> kind, outputs |-> <<bnn_output>>,
                       values |-> <<TransformValue(kind, output_sorted,
                                        SearchSortedLeft(output_sorted, bnn_output))>>]
    /\ UNCHANGED <<prior, tableVars, gbVars, rngVars, mcVars>>
    /\ UNCHANGED detVars
    /\ UNCHANGED threadVars
    /\ UNCHANGED <<neps, callerVars>>

(***************************************************************************)
(* multicurves_with_configurations.DatasetPrior and get_batch (the branch  *)
(* without load_path).  Curve values are finite: c and a lie in [0, 1],    *)
(* alpha and sigma are exponentials of norm.ppf at a u of [eps, 1 - eps],  *)
(* so the softmax weights of SoftGreedy are positive and sum to 1.         *)
(***************************************************************************)
\* line 30: N, the number of sampled networks (1000 in the source)
N == MaxNDatasets

\* DatasetPrior.__init__(num_features, num_outputs) of the multicurves module
McDatasetPriorInit(nf, no, sample) ==
    /\ IF NeedsBuild(mc_output_sorted)
       THEN mc_output_sorted' = NpSort(sample)
       ELSE UNCHANGED mc_output_sorted
    /\ dataset' = [num_features |-> nf, num_outputs |-> no, num_inputs |-> NumInputs(nf)]

\* line 157: np.random.randint(1, num_features - 2), upper bound exclusive
McNumParamsChoices(nf) == 1..(nf - 3)

Policies == {"URS", "BFS", "DFS", "SoftGreedy"}

\* np.random.shuffle(ids): every arrangement of 0..ncurves-1
Shuffles(ncurves) ==
    {f \in [Curves(ncurves) -> Curves(ncurves)] :
        \A j, k \in Curves(ncurves) : j # k => f[j] # f[k]}

\* mutant: an exhausted curve still counted as a candidate
CandidatesInclusive(cut, nepochs) == {j \in DOMAIN cut : cut[j] <= nepochs}

\* line 200: [j for j, c in enumerate(cutoff) if c < nepochs]
Candidates(cut, nepochs) == {j \in DOMAIN cut : cut[j] < nepochs}

\* lines 209, 216: [j for j, c in enumerate(cutoff) if c == 0]
NewCandidates(cut) == {j \in DOMAIN cut : cut[j] = 0}

\* mutant: a curve one step before its end not counted as in progress
InProgressStrict(cut, nepochs) == {j \in DOMAIN cut : cut[j] < nepochs - 1 /\ cut[j] > 0}

\* line 213: [j for j, c in enumerate(cutoff) if c < nepochs and c > 0]
InProgress(cut, nepochs) == {j \in DOMAIN cut : cut[j] < nepochs /\ cut[j] > 0}

\* mutant: BFS walking the curves as DFS does
SelectionsDepthFirst(policy, k, cut, ncurves, nepochs, new) ==
    IF policy \in {"BFS", "DFS"} THEN {k \div nepochs}
    ELSE IF policy = "URS" THEN Candidates(cut, nepochs)
    ELSE IF new /\ NewCandidates(cut) # {} THEN NewCandidates(cut)
    ELSE IF InProgress(cut, nepochs) = {} THEN NewCandidates(cut)
    ELSE InProgress(cut, nepochs)

\* lines 199-236: the curves the policy can select at step k; new is u < p_new.
\* The empty set is np.random.choice of an empty list, which raises ValueError.
Selections(policy, k, cut, ncurves, nepochs, new) ==
    CASE policy = "URS" -> Candidates(cut, nepochs)
      [] policy = "BFS" -> {k % ncurves}
      [] policy = "DFS" -> {k \div nepochs}
      [] policy = "SoftGreedy" ->
            IF new /\ NewCandidates(cut) # {} THEN NewCandidates(cut)
            ELSE IF InProgress(cut, nepochs) = {} THEN NewCandidates(cut)
            ELSE InProgress(cut, nepochs)

\* the hyperparameters read by the branch without load_path
McHyperparameters ==
    [ncurves : 1..MaxCurves, nepochs : 1..MaxEpochs,
     ordering : Policies \cup {"Other"}, fix_nparams : BOOLEAN, load_path : {FALSE}]

\* single_eval_pos is not read by this get_batch
McCalls ==
    {a \in [batch_size : 1..MaxBatch, seq_len : 1..(MaxCurves * MaxEpochs),
             num_features : 1..MaxFeatures, single_eval_pos : {0},
             hyperparameters : McHyperparameters] :
        a.batch_size * a.seq_len <= MaxSteps}

McNoLocals ==
    /\ dataset' = None
    /\ curves' = None
    /\ ids' = None
    /\ cutoff' = None
    /\ i' = 0

\* lines 151-152: assert seq_len == ncurves * nepochs; assert num_features >= 2
McPrecondition(a) ==
    /\ a.seq_len = a.hyperparameters.ncurves * a.hyperparameters.nepochs
    /\ a.num_features >= 2

\* lines 148-163: the asserts and the number of parameters
McGetBatchCall(a) ==
    /\ pc = "idle"
    /\ ~a.hyperparameters.load_path
    /\ args' = a
    /\ call_state' = CallStart
    /\ UNCHANGED <<result, x, y, gbLocals, dataset_prior, tableVars, mcVars,
                   get_batch_attrs, reference>>
    /\ IF ~McPrecondition(a)
       THEN /\ pc' = "AssertionError"
            /\ UNCHANGED <<num_params, rngVars>>
       ELSE IF a.hyperparameters.fix_nparams
       THEN /\ num_params' = a.num_features - 2
            /\ pc' = "mc_loop"
            /\ UNCHANGED rngVars
       ELSE IF McNumParamsChoices(a.num_features) = {}
       THEN /\ pc' = "ValueError"
            /\ UNCHANGED <<num_params, rngVars>>
       ELSE \E np \in McNumParamsChoices(a.num_features) :
                /\ num_params' = np
                /\ Draw(<<Drawn("num_params", a.num_features, np)>>)
                /\ pc' = "mc_loop"
    /\ UNCHANGED priorVars
    /\ UNCHANGED threadVars
    /\ UNCHANGED <<neps, callerVars>>

\* lines 165-197: the curves of one batch element and the start of its ordering
StartElement ==
    /\ pc = "mc_loop"
    /\ Len(x) < args.batch_size
    /\ \E sample \in SamplesIfNone(mc_output_sorted, N * Pow3Outputs),
          shuffled \in Shuffles(args.hyperparameters.ncurves) :
            /\ McDatasetPriorInit(num_params, Pow3Outputs, sample)
            /\ curves' = [j \in Curves(args.hyperparameters.ncurves) |->
                             [e \in 1..args.hyperparameters.nepochs |->
                                 CurveValue(mc_output_sorted', j, e)]]
            /\ ids' = shuffled
            /\ Draw((IF sample # <<>>
                     THEN <<Drawn("output", <<NumInputs(num_params), Len(sample)>>, sample)>>
                     ELSE <<>>)
                    \o <<Drawn("ids", args.hyperparameters.ncurves, shuffled)>>)
    /\ cutoff' = Zeros(args.hyperparameters.ncurves)
    /\ i' = 0
    /\ epoch' = [p \in 1..args.seq_len |-> 0]
    /\ id_curve' = [p \in 1..args.seq_len |-> 0]
    /\ curve_val' = [p \in 1..args.seq_len |-> 0]
    /\ config' = [p \in 1..args.seq_len |-> [c \in 1..num_params |-> 0]]
    /\ pc' = "ordering"
    /\ UNCHANGED <<tableVars, args, num_params, dataset_prior, x, y, result,
                   n_levels, ordering, cutoff_per_curve, epochs_per_curve, curve_xs,
                   curve_counters>>
    /\ UNCHANGED priorVars
    /\ UNCHANGED detVars
    /\ UNCHANGED threadVars
    /\ UNCHANGED <<neps, callerVars>>

\* lines 198-241: one step of the ordering loop
OrderingStep ==
    /\ pc = "ordering"
    /\ i < args.hyperparameters.ncurves * args.hyperparameters.nepochs
    /\ UNCHANGED <<tableVars, args, num_params, dataset_prior, x, y, result,
                   n_levels, ordering, cutoff_per_curve, epochs_per_curve, curve_xs,
                   curve_counters, mc_output_sorted, dataset, curves, ids>>
    /\ IF args.hyperparameters.ordering \notin Policies
       THEN /\ pc' = "NotImplementedError"
            /\ UNCHANGED <<id_curve, epoch, config, curve_val, cutoff, i, rngVars>>
       ELSE \E new \in BOOLEAN :
            \E S \in {Selections(args.hyperparameters.ordering, i, cutoff,
                                 args.hyperparameters.ncurves,
                                 args.hyperparameters.nepochs, new)} :
                IF S = {}
                THEN /\ pc' = "ValueError"
                     /\ UNCHANGED <<id_curve, epoch, config, curve_val, cutoff, i, rngVars>>
                ELSE \E selected \in S :
                    IF ~(cutoff[selected] < args.hyperparameters.nepochs)
                    THEN /\ pc' = "IndexError"
                         /\ id_curve' = [id_curve EXCEPT ![i + 1] = ids[selected]]
                         /\ UNCHANGED <<epoch, config, curve_val, cutoff, i, rngVars>>
                    ELSE /\ id_curve' = [id_curve EXCEPT ![i + 1] = ids[selected]]
                         /\ curve_val' = [curve_val EXCEPT ![i + 1] =
                                             curves[selected][cutoff[selected] + 1]]
                         /\ config' = [config EXCEPT ![i + 1] =
                                          [c \in 1..num_params |-> selected]]
                         /\ cutoff' = [cutoff EXCEPT ![selected] = @ + 1]
                         /\ epoch' = [epoch EXCEPT ![i + 1] = cutoff'[selected]]
                         /\ i' = i + 1
                         /\ Draw(<<Drawn("selected", <<args.hyperparameters.ordering, S>>,
                                         <<new, selected>>)>>)
                         /\ pc' = "ordering"
    /\ UNCHANGED priorVars
    /\ UNCHANGED detVars
    /\ UNCHANGED threadVars
    /\ UNCHANGED <<neps, callerVars>>

\* lines 242-243: the element joins the batch
FinishElement ==
    /\ pc = "ordering"
    /\ i = args.hyperparameters.ncurves * args.hyperparameters.nepochs
    /\ x' = Append(x, Records(id_curve, epoch, config))
    /\ y' = Append(y, curve_val)
    /\ pc' = "mc_loop"
    /\ UNCHANGED <<tableVars, rngVars, args, num_params, dataset_prior, result,
                   gbLocals, mcVars>>
    /\ UNCHANGED priorVars
    /\ UNCHANGED detVars
    /\ UNCHANGED threadVars
    /\ UNCHANGED <<neps, callerVars>>

\* lines 245-248: the tensors are stacked and returned
McReturnBatch ==
    /\ pc = "mc_loop"
    /\ Len(x) = args.batch_size
    /\ result' = [x |-> StackDim1(x), y |-> StackDim1(y), target_y |-> StackDim1(y)]
    /\ pc' = "returned"
    /\ UNCHANGED <<tableVars, rngVars, args, num_params, dataset_prior, x, y,
                   gbLocals, mcVars>>
    /\ UNCHANGED priorVars
    /\ UNCHANGED detVars
    /\ UNCHANGED threadVars
    /\ UNCHANGED <<neps, callerVars>>

(***************************************************************************)
(* DatasetPrior.__init__ run by several threads of one process (bnn3c      *)
(* lines 125-142, multicurves lines 41-50).  Neither class takes a lock,   *)
(* so the threads interleave between the test of line 125, the sampling    *)
(* of lines 126-139 and the assignment of line 140.  Every thread          *)
(* constructs DatasetPrior(1, 3); output is the local of lines 127-139.    *)
(***************************************************************************)
Threads == 1..MaxThreads

ThreadFrame ==
    UNCHANGED <<table_shape, gbVars, rngVars, mcVars, priorVars, detVars, neps,
                callerVars>>

\* line 125: if DatasetPrior.output_sorted is None
ThreadCheck(t) ==
    /\ threads[t].pc = "start"
    /\ threads' = [threads EXCEPT
                      ![t].pc = IF NeedsBuild(output_sorted) THEN "sample" ELSE "built"]
    /\ UNCHANGED <<output_sorted, builds>>
    /\ ThreadFrame

\* lines 126-139: the outputs of N_datasets freshly initialised networks
ThreadSample(t) ==
    /\ threads[t].pc = "sample"
    /\ \E sample \in Samples(N * Pow3Outputs) :
          threads' = [threads EXCEPT ![t].pc = "assign", ![t].output = sample]
    /\ UNCHANGED <<output_sorted, builds>>
    /\ ThreadFrame

\* line 140: DatasetPrior.output_sorted = np.sort(torch.flatten(output).numpy())
ThreadAssign(t) ==
    /\ threads[t].pc = "assign"
    /\ output_sorted' = NpSort(threads[t].output)
    /\ builds' = builds + 1
    /\ threads' = [threads EXCEPT ![t].pc = "built"]
    /\ ThreadFrame

\* line 142: self.new_dataset(), the end of __init__
ThreadNewDataset(t) ==
    /\ threads[t].pc = "built"
    /\ threads' = [threads EXCEPT ![t].pc = "constructed"]
    /\ UNCHANGED <<output_sorted, builds>>
    /\ ThreadFrame

\* lines 169, 253: the thread's instance looks a value up in the table
ThreadRead(t) ==
    /\ threads[t].pc = "constructed"
    /\ threads' = [threads EXCEPT ![t].pc = "read", ![t].table = output_sorted]
    /\ UNCHANGED <<output_sorted, builds>>
    /\ ThreadFrame

(***************************************************************************)
(* neps.run (api.py lines 96-300) and _run_args (lines 303-426).  A path   *)
(* is the sequence of its components, an optional number the sequence of   *)
(* at most one number, the searcher keyword arguments the set of their     *)
(* names.  What is imported from other modules is known by what api.py     *)
(* says of it: get_searcher_data "throws an error when the searcher is     *)
(* not found", SearchSpace raises TypeError for values it does not take.   *)
(***************************************************************************)
\* the searchers api.py names in _run_args, one a user keeps in a file
\* of their own, and a name nobody defined
NepsSearchers == {"bayesian_optimization", "hyperband", "priorband", "pibo"}
UserSearchers == {"my_searcher"}

SearcherArgs ==
    [type : {"str"}, name : {"default", "hyperband", "my_searcher", "no_such_searcher"}]
        \cup {[type |-> "BaseOptimizer", name |-> "instance"],
              [type |-> "NoneType", name |-> "None"],
              [type |-> "int", name |-> "7"]}

PipelineSpaces ==
    [kind : {"parameters", "ConfigurationSpace", "invalid", "not_mapping"},
     has_prior : BOOLEAN, has_fidelity : BOOLEAN]

NepsCalls ==
    [root_directory : {None, <<"results">>},
     pipeline_space : PipelineSpaces,
     searcher : SearcherArgs,
     searcher_path : {None, <<"searchers">>},
     max_cost_total : {None, <<10>>},
     searcher_kwargs : SUBSET {"working_directory", "budget", "eta"}]

\* mutant: run without the test of the deprecated argument
DeprecatedArgumentIgnored(a) == FALSE

\* line 192: if "working_directory" in searcher_kwargs
DeprecatedArgument(a) == "working_directory" \in a.searcher_kwargs

\* lines 198-206: budget, when given, replaces max_cost_total and is removed
AfterBudget(a) ==
    IF "budget" \in a.searcher_kwargs
    THEN [a EXCEPT !.max_cost_total = <<20>>, !.searcher_kwargs = @ \ {"budget"}]
    ELSE a

\* lines 354-363: the searcher NePS chooses for a pipeline space
DefaultSearcher(space) ==
    IF space.has_prior
    THEN (IF space.has_fidelity THEN "priorband" ELSE "pibo")
    ELSE (IF space.has_fidelity THEN "hyperband" ELSE "bayesian_optimization")

\* lines 303-426: what _run_args returns, or the exception it raises
RunArgs(a) ==
    LET byPath == a.searcher.type = "str" /\ a.searcher_path # None
        chosen == a.searcher.type = "NoneType"
                     \/ (a.searcher.type = "str" /\ a.searcher.name = "default")
        name == IF ~byPath /\ chosen THEN DefaultSearcher(a.pipeline_space)
                ELSE a.searcher.name
        found == IF byPath THEN name \in UserSearchers
                 ELSE a.searcher.type # "int" /\ name \in NepsSearchers
        user_defined == byPath \/ ~chosen
    IN  IF a.pipeline_space.kind = "not_mapping" THEN [raised |-> "AttributeError"]
        ELSE IF a.pipeline_space.kind = "invalid" THEN [raised |-> "TypeError"]
        ELSE IF ~found THEN [raised |-> "SearcherNotFound"]
        ELSE [raised |-> "",
              searcher_name |-> name,
              searcher_alg |-> name,
              user_defined_searcher |-> user_defined,
              searcher_instance |->
                  [algorithm |-> name, budget |-> a.max_cost_total,
                   config |-> (IF user_defined THEN a.searcher_kwargs ELSE {})
                                 \cup {"loss_value_on_error", "cost_value_on_error",
                                       "ignore_errors"}]]

\* lines 192-297: run, up to the exception it raises or to its call of
\* metahyper.run
RunOutcome(a0) ==
    LET a == AfterBudget(a0)
        warnings == IF "budget" \in a0.searcher_kwargs THEN {"DeprecationWarning"} ELSE {}
        Raised(e, inst, warned) ==
            [pc |-> e, args |-> a0, warnings |-> warned, searcher_instance |-> inst,
             metahyper |-> None]
        Started(inst, info) ==
            [pc |-> "metahyper.run", args |-> a0, warnings |-> warnings,
             searcher_instance |-> inst,
             metahyper |-> [sampler |-> inst, searcher_info |-> info,
                            optimization_dir |-> a.root_directory]]
    IN  IF DeprecatedArgument(a0) THEN Raised("ValueError", None, {})
        ELSE IF a.searcher.type = "BaseOptimizer"
        THEN Started([algorithm |-> "whoami", budget |-> None, config |-> {}],
                     [searcher_name |-> "custom", searcher_alg |-> "whoami",
                      user_defined_searcher |-> TRUE,
                      searcher_args_user_modified |-> FALSE])
        ELSE LET r == RunArgs(a)
             IN  IF r.raised # "" THEN Raised(r.raised, None, warnings)
                 ELSE IF a.searcher.type # "str"
                 THEN Raised("ValueError", r.searcher_instance, warnings)
                 ELSE Started(r.searcher_instance,
                              [searcher_name |-> r.searcher_name,
                               searcher_alg |-> r.searcher_alg,
                               user_defined_searcher |-> r.user_defined_searcher,
                               searcher_args_user_modified |->
                                   r.user_defined_searcher /\ a.searcher_kwargs # {}])

NepsFrame ==
    UNCHANGED <<tableVars, gbVars, rngVars, mcVars, priorVars, detVars, threadVars,
                callerVars>>

\* lines 96-297
NepsRun ==
    /\ neps = None
    /\ \E a \in NepsCalls : neps' = RunOutcome(a)
    /\ NepsFrame

\* lines 299-300: metahyper.run has returned, post_run_csv is called
NepsPostRun ==
    /\ neps # None
    /\ neps.pc = "metahyper.run"
    /\ neps' = [neps EXCEPT !.pc = "returned"]
    /\ NepsFrame

\* the caller is done with the outcome of run
NepsCallerContinues ==
    /\ neps # None
    /\ neps.pc # "metahyper.run"
    /\ neps' = None
    /\ NepsFrame

(***************************************************************************)
(* The post-evaluation hook of neps.run (api.py lines 25-93), called by    *)
(* metahyper.run after every evaluation, one call at a time.  A file is    *)
(* the sequence of what was appended to it, None while it does not exist.  *)
(* A loss is a float, among them nan, or a dict of several objectives;     *)
(* a number is written with its type first.                               *)
(* get_loss is imported: the docstring of run (lines 152-155) says an      *)
(* error is ignored with ignore_errors, replaced by loss_value_on_error    *)
(* when that is set, and raised otherwise, which ends the run.             *)
(***************************************************************************)
Float(v) == <<"float", v>>
NaN == <<"nan">>
MultiObjective == <<"dict">>

IsNaN(l) == l = NaN

Losses == {Float(v) : v \in 0..MaxLoss} \cup {NaN, MultiObjective}

\* what run_pipeline gave: "error", or a result with its loss
Results == {[kind |-> "error"]} \cup [kind : {"result"}, loss : Losses]

HookArgs == [loss_value_on_error : {None} \cup {<<Float(v)>> : v \in {MaxLoss}},
             ignore_errors : BOOLEAN]

\* the results the hook is called with: an error reaches it only when the
\* run was told to ignore errors or to replace their loss
ResultsFor(hook) ==
    IF hook.ignore_errors \/ hook.loss_value_on_error # None THEN Results
    ELSE Results \ {[kind |-> "error"]}

\* line 36: get_loss(result, loss_value_on_error, ignore_errors); res is result
GetLoss(res, hook) ==
    IF res.kind = "error"
    THEN (IF hook.ignore_errors THEN <<"str">>
          ELSE hook.loss_value_on_error[1])
    ELSE res.loss

\* f"{loss}": the text of a value
Format(l) == IF IsNaN(l) THEN <<"nan">> ELSE <<"digits", l[2]>>

\* float(text)
ParseFloat(t) == IF t[1] = "nan" THEN NaN ELSE Float(t[2])

\* a > b on floats: false whenever one of them is nan
Greater(a, b) == ~IsNaN(a) /\ ~IsNaN(b) /\ a[2] > b[2]

\* lines 68-74: the file does not exist, or its last line is greater
IsNewBest(trajectory, loss) ==
    IF trajectory = None THEN TRUE
    ELSE Greater(ParseFloat(trajectory[Len(trajectory)]), loss)

\* open("a").write: the file is created by its first entry
AppendTo(file, entry) == IF file = None THEN <<entry>> ELSE Append(file, entry)

\* lines 28-91: the files after one call of the hook
PostEvaluationHook(fs, hook, config_id, res) ==
    LET loss == GetLoss(res, hook)
        entry == [loss |-> loss, config_id |-> config_id]
        all == AppendTo(fs.all_losses_and_configs, entry)
    IN  IF res.kind = "error" \/ loss[1] = "dict"
        THEN [fs EXCEPT !.all_losses_and_configs = all]
        ELSE IF IsNewBest(fs.best_loss_trajectory, loss)
        THEN [all_losses_and_configs |-> all,
              best_loss_trajectory |-> AppendTo(fs.best_loss_trajectory, Format(loss)),
              best_loss_with_config_trajectory |->
                  AppendTo(fs.best_loss_with_config_trajectory, entry)]
        ELSE [fs EXCEPT !.all_losses_and_configs = all]

HookFrame ==
    UNCHANGED <<tableVars, gbVars, rngVars, mcVars, priorVars, detVars, threadVars,
                trainer>>

\* lines 281-297: metahyper.run is called with the hook made by line 292
MetahyperRun ==
    /\ neps = None
    /\ \E hook \in HookArgs :
          neps' = [pc |-> "metahyper.run", hook |-> hook, evaluations |-> <<>>]
    /\ UNCHANGED files
    /\ HookFrame

\* one evaluation has finished and metahyper.run calls the hook
Evaluation ==
    /\ neps # None
    /\ neps.pc = "metahyper.run"
    /\ Len(neps.evaluations) < MaxEvaluations
    /\ \E res \in ResultsFor(neps.hook) :
          /\ files' = PostEvaluationHook(files, neps.hook, Len(neps.evaluations), res)
          /\ neps' = [neps EXCEPT !.evaluations = Append(@, res)]
    /\ HookFrame

(***************************************************************************)
(* multicurves_with_configurations.get_batch with load_path, lines 99-145: *)
(* the batches are read from chunk files written beforehand.  The file of  *)
(* chunk c holds chunk_size sequences along its second axis; a column of   *)
(* it is a value of its own, told apart by file, chunk and position.       *)
(***************************************************************************)
\* np.load of chunk_{c}_{xy}.npy, as the sequence of its columns
ChunkFile(xy, c, chunk_size) == [j \in 1..chunk_size |-> <<xy, c, j - 1>>]

\* a[:, lo:hi] for 0 <= lo, 0 <= hi: the end of a slice is clamped
Slice(a, lo, hi) == SubSeq(a, lo + 1, IF hi < Len(a) THEN hi ELSE Len(a))

LoadCalls ==
    [batch_size : 1..MaxBatch, seq_len : {1}, num_features : {1}, single_eval_pos : {0},
     hyperparameters : [load_path : {TRUE}, chunk_size : 1..MaxChunkSize,
                        n_chunks : 1..MaxChunks]]

\* lines 100-104: the attributes are created by the first call
AttrsAtEntry ==
    IF get_batch_attrs = None
    THEN [seq_counter |-> 0, loaded_chunk |-> None]
    ELSE get_batch_attrs

\* mutant: every call serves the first columns of the chunk of seq_counter
ServeWithoutOffset(attrs, batch_size, chunk_size, n_chunks) ==
    LET chunk_id == (attrs.seq_counter \div chunk_size) % n_chunks
    IN  [x |-> Slice(ChunkFile("x", chunk_id, chunk_size), 0, batch_size),
         y |-> Slice(ChunkFile("y", chunk_id, chunk_size), 0, batch_size),
         loaded_chunk |-> [id |-> chunk_id, x |-> ChunkFile("x", chunk_id, chunk_size),
                           y |-> ChunkFile("y", chunk_id, chunk_size)]]

\* lines 110-137: the columns served and the chunk kept; a chunk is its id
\* with its x and y arrays
Serve(attrs, batch_size, chunk_size, n_chunks) ==
    LET chunk_id == (attrs.seq_counter \div chunk_size) % n_chunks
        offset == attrs.seq_counter % chunk_size
        next_chunk_id == (chunk_id + 1) % n_chunks
        Loaded(c) == [id |-> c, x |-> ChunkFile("x", c, chunk_size),
                      y |-> ChunkFile("y", c, chunk_size)]
        held == attrs.loaded_chunk
    IN  IF held = None \/ chunk_id # held.id
        THEN [x |-> Slice(Loaded(chunk_id).x, 0, batch_size),
              y |-> Slice(Loaded(chunk_id).y, 0, batch_size),
              loaded_chunk |-> Loaded(chunk_id)]
        ELSE IF offset + batch_size <= chunk_size
        THEN [x |-> Slice(held.x, offset, offset + batch_size),
              y |-> Slice(held.y, offset, offset + batch_size),
              loaded_chunk |-> held]
        ELSE [x |-> Slice(held.x, offset, Len(held.x))
                    \o Slice(Loaded(next_chunk_id).x, 0, batch_size - chunk_size + offset),
              y |-> Slice(held.y, offset, Len(held.y))
                    \o Slice(Loaded(next_chunk_id).y, 0, batch_size - chunk_size + offset),
              loaded_chunk |-> Loaded(next_chunk_id)]

\* lines 99-145: the whole call
LoadCall(a) ==
    /\ pc = "idle"
    /\ a.hyperparameters.load_path
    /\ args' = a
    /\ call_state' = CallStart
    /\ \E served \in {Serve(AttrsAtEntry, a.batch_size, a.hyperparameters.chunk_size,
                             a.hyperparameters.n_chunks)} :
          IF Len(served.x) = a.batch_size /\ Len(served.y) = a.batch_size
          THEN /\ get_batch_attrs' = [seq_counter |-> AttrsAtEntry.seq_counter + a.batch_size,
                                      loaded_chunk |-> served.loaded_chunk]
               /\ result' = [x |-> served.x, y |-> served.y, target_y |-> served.y]
               /\ pc' = "returned"
          ELSE /\ get_batch_attrs' = [seq_counter |-> AttrsAtEntry.seq_counter,
                                      loaded_chunk |-> served.loaded_chunk]
               /\ pc' = "AssertionError"
               /\ UNCHANGED result
    /\ UNCHANGED <<tableVars, rngVars, num_params, dataset_prior, x, y, gbLocals, mcVars,
                   reference, priorVars>>
    /\ UNCHANGED threadVars
    /\ UNCHANGED <<neps, files>>

\* a call by a caller that keeps no account of the samples it was served
LoadBatchCall(a) ==
    /\ AttrsAtEntry.seq_counter + a.batch_size <= MaxServed
    /\ LoadCall(a)
    /\ UNCHANGED trainer

\* a training loop that reads its batches from one set of chunk files:
\* chunk_size and n_chunks are those of the files, the batch size is the
\* caller's choice at every call
TrainerStart ==
    /\ pc = "idle"
    /\ trainer = None
    /\ get_batch_attrs = None
    /\ \E cs \in 1..MaxChunkSize, n \in 1..MaxChunks :
          trainer' = [chunk_size |-> cs, n_chunks |-> n, calls |-> <<>>,
                      failed |-> 0, served |-> <<>>]
    /\ UNCHANGED <<tableVars, gbVars, rngVars, mcVars, priorVars, detVars, threadVars,
                   neps, files>>

\* the columns of a returned batch, x and y side by side
Samples2(b) == [m \in 1..Len(b.x) |-> [x |-> b.x[m], y |-> b.y[m]]]

\* one call of get_batch by the training loop
TrainerGetBatch ==
    /\ pc = "idle"
    /\ trainer # None
    /\ \E bs \in 1..MaxBatch :
          /\ AttrsAtEntry.seq_counter + bs <= MaxSamples
          /\ LoadCall([batch_size |-> bs, seq_len |-> 1, num_features |-> 1,
                       single_eval_pos |-> 0,
                       hyperparameters |-> [load_path |-> TRUE,
                                            chunk_size |-> trainer.chunk_size,
                                            n_chunks |-> trainer.n_chunks]])
          /\ trainer' = [trainer EXCEPT
                            !.calls = Append(@, bs),
                            !.failed = IF pc' = "returned" THEN @ ELSE @ + 1,
                            !.served = IF pc' = "returned" THEN @ \o Samples2(result')
                                       ELSE @]

(***************************************************************************)
(* The caller                                                              *)
(***************************************************************************)
\* the caller seeds the generators (np.random.seed, torch.manual_seed) with
\* the seed it always uses
Seed ==
    /\ pc = "idle"
    /\ rng_seeded' = TRUE
    /\ rng_pos' = 0
    /\ rng_aligned' = TRUE
    /\ UNCHANGED <<rng_tape, tableVars, gbVars, mcVars, priorVars, detVars>>
    /\ UNCHANGED threadVars
    /\ UNCHANGED <<neps, callerVars>>

\* the caller goes on in a new process: the modules are imported afresh, the
\* class and function attributes are as the source initialises them (lines
\* 64 and 18, no attribute on get_batch), the generators are unseeded
NewProcess ==
    /\ pc = "idle"
    /\ output_sorted' = None
    /\ table_shape' = None
    /\ mc_output_sorted' = None
    /\ get_batch_attrs' = None
    /\ rng_seeded' = FALSE
    /\ rng_pos' = 0
    /\ rng_aligned' = FALSE
    /\ UNCHANGED <<rng_tape, gbVars, dataset, curves, ids, cutoff, i, priorVars,
                   call_state, reference>>
    /\ UNCHANGED threadVars
    /\ UNCHANGED <<neps, callerVars>>

\* two calls with identical configuration that start from the same state of
\* the generators
SameStart(r1, r2) == r1.args = r2.args /\ r1.start.rng = r2.start.rng

\* the call that is running or has just ended, as the caller sees it
Run == [start |-> call_state, args |-> args, outcome |-> [pc |-> pc, result |-> result]]

\* the call has ended, with a batch or an exception
Ended ==
    pc \in {"returned", "AssertionError", "ValueError", "IndexError", "NotImplementedError"}

\* the caller is done with the outcome of the call (a batch or an exception):
\* the frame of the call is gone, what the class and the generators hold stays
CallerContinues ==
    /\ Ended
    /\ pc' = "idle"
    /\ args' = None
    /\ num_params' = 0
    /\ dataset_prior' = None
    /\ result' = None
    /\ x' = <<>>
    /\ y' = <<>>
    /\ NoLocals
    /\ McNoLocals
    /\ call_state' = None
    /\ reference' = IF reference = None /\ call_state.rng.seeded THEN Run ELSE reference
    /\ UNCHANGED <<tableVars, rngVars, mc_output_sorted, get_batch_attrs>>
    /\ UNCHANGED priorVars
    /\ UNCHANGED threadVars
    /\ UNCHANGED <<neps, callerVars>>

\* the root directory before the first evaluation: no file exists
NoFiles == [all_losses_and_configs |-> None, best_loss_trajectory |-> None,
            best_loss_with_config_trajectory |-> None]

Init ==
    /\ output_sorted = None
    /\ table_shape = None
    /\ pc = "idle"
    /\ args = None
    /\ num_params = 0
    /\ dataset_prior = None
    /\ x = <<>>
    /\ y = <<>>
    /\ n_levels = 0
    /\ ordering = None
    /\ cutoff_per_curve = None
    /\ epochs_per_curve = None
    /\ curve_xs = None
    /\ id_curve = None
    /\ epoch = None
    /\ config = None
    /\ curve_val = None
    /\ curve_counters = None
    /\ result = None
    /\ rng_seeded = FALSE
    /\ rng_tape = <<>>
    /\ rng_pos = 0
    /\ rng_aligned = FALSE
    /\ get_batch_attrs = None
    /\ call_state = None
    /\ reference = None
    /\ threads = [t \in Threads |-> [pc |-> "start", output |-> None, table |-> None]]
    /\ builds = 0
    /\ neps = None
    /\ trainer = None
    /\ files = NoFiles
    /\ mc_output_sorted = None
    /\ dataset = None
    /\ curves = None
    /\ ids = None
    /\ cutoff = None
    /\ i = 0
    /\ prior = None
    /\ returned = None

\* hpo_lc_pfn_bnn3c.get_batch is called
GetBatch == pc = "idle" /\ \E a \in Calls : GetBatchCall(a)

Next ==
    \/ GetBatch
    \/ GenerateElement
    \/ ReturnBatch
    \/ CallerContinues

Spec == Init /\ [][Next]_vars

\* multicurves_with_configurations.get_batch is called without load_path
McGetBatch == pc = "idle" /\ \E a \in McCalls : McGetBatchCall(a)

NextMC ==
    \/ McGetBatch
    \/ StartElement
    \/ OrderingStep
    \/ FinishElement
    \/ McReturnBatch
    \/ CallerContinues

SpecMC == Init /\ [][NextMC]_vars

\* get_batch of either module called by a user
NextGetBatch ==
    \/ GetBatch
    \/ GenerateElement
    \/ ReturnBatch
    \/ McGetBatch
    \/ StartElement
    \/ OrderingStep
    \/ FinishElement
    \/ McReturnBatch
    \/ CallerContinues

SpecGetBatch == Init /\ [][NextGetBatch]_vars

\* the class DatasetPrior used on its own
NextPrior ==
    \/ PriorConstruct
    \/ PriorNewDataset
    \/ PriorOutputForConfig
    \/ PriorCurvesForConfigs
    \/ PriorTransform

SpecPrior == Init /\ [][NextPrior]_vars

\* multicurves_with_configurations.get_batch called with an ordering name
\* that is none of the policies, without and with load_path
UnknownOrderingCalls == {a \in McCalls : a.hyperparameters.ordering \notin Policies}

UnknownOrderingLoadCalls ==
    [batch_size : 1..MaxBatch, seq_len : {1}, num_features : {1}, single_eval_pos : {0},
     hyperparameters : [load_path : {TRUE}, chunk_size : 1..MaxChunkSize,
                        n_chunks : 1..MaxChunks, ordering : {"Other"}]]

UnknownOrderingGetBatch ==
    pc = "idle" /\ \E a \in UnknownOrderingCalls : McGetBatchCall(a)

UnknownOrderingLoadBatch ==
    pc = "idle" /\ \E a \in UnknownOrderingLoadCalls : LoadBatchCall(a)

NextUnknownOrdering ==
    \/ UnknownOrderingGetBatch
    \/ StartElement
    \/ OrderingStep
    \/ UnknownOrderingLoadBatch
    \/ CallerContinues

SpecUnknownOrdering == Init /\ [][NextUnknownOrdering]_vars

\* neps.run called by a user
NextNeps ==
    \/ NepsRun
    \/ NepsPostRun
    \/ NepsCallerContinues

SpecNeps == Init /\ [][NextNeps]_vars

\* a run of neps with its evaluations
NextHook ==
    \/ MetahyperRun
    \/ Evaluation
    \/ NepsPostRun

SpecHook == Init /\ [][NextHook]_vars

\* get_batch of either module called with malformed shapes: fewer than two
\* features, or (multicurves) a seq_len that is not ncurves * nepochs, the
\* defaults of ncurves and nepochs being 50
DefaultNcurvesNepochs == 50

Malformed(a) ==
    \/ a.num_features < 2
    \/ IF "ncurves" \in DOMAIN a.hyperparameters
       THEN a.seq_len # a.hyperparameters.ncurves * a.hyperparameters.nepochs
       ELSE "load_path" \in DOMAIN a.hyperparameters
                /\ a.seq_len # DefaultNcurvesNepochs * DefaultNcurvesNepochs

MalformedGetBatch ==
    pc = "idle" /\ \E a \in {c \in Calls : Malformed(c)} : GetBatchCall(a)

MalformedMcGetBatch ==
    pc = "idle" /\ \E a \in {c \in McCalls : Malformed(c)} : McGetBatchCall(a)

MalformedLoadBatch ==
    pc = "idle" /\ \E a \in {c \in LoadCalls : Malformed(c)} : LoadBatchCall(a)

NextMalformed ==
    \/ MalformedGetBatch
    \/ MalformedMcGetBatch
    \/ MalformedLoadBatch
    \/ CallerContinues

SpecMalformed == Init /\ [][NextMalformed]_vars

\* the class DatasetPrior constructed by several threads
NextThreads ==
    \E t \in Threads :
        \/ ThreadCheck(t)
        \/ ThreadSample(t)
        \/ ThreadAssign(t)
        \/ ThreadNewDataset(t)
        \/ ThreadRead(t)

SpecThreads == Init /\ [][NextThreads]_vars

\* a training loop on chunk files
NextTrainer ==
    \/ TrainerStart
    \/ TrainerGetBatch
    \/ CallerContinues

SpecTrainer == Init /\ [][NextTrainer]_vars

\* get_batch of either module called by a caller that seeds the generators:
\* it asks for batches of one sequence of one position, with fewer features
\* than MaxFeatures, from a generator that has made fewer than MaxDraws draws
\* since it was seeded; a process draws its batches from one of the two modules
DetCalls == {a \in Calls : a.batch_size = 1 /\ a.seq_len = 1 /\ a.num_features < MaxFeatures}

DetGetBatch ==
    /\ pc = "idle"
    /\ get_batch_attrs = None
    /\ rng_pos < MaxDraws
    /\ \E a \in DetCalls : GetBatchCall(a)

LoadBatch ==
    /\ pc = "idle"
    /\ output_sorted = None
    /\ \E a \in LoadCalls : LoadBatchCall(a)

NextDet ==
    \/ Seed
    \/ NewProcess
    \/ DetGetBatch
    \/ GenerateElement
    \/ ReturnBatch
    \/ LoadBatch
    \/ CallerContinues

SpecDet == Init /\ [][NextDet]_vars

(***************************************************************************)
(* Properties of the batches of hpo_lc_pfn_bnn3c.get_batch                 *)
(***************************************************************************)
\* a batch element has been generated (its locals are those of the last one)
ElementDone == pc \in {"loop", "returned"} /\ Len(x) > 0

Positions == 1..args.seq_len

\* tensor.shape of a 3-d and of a 2-d tensor
Shape3(t) == <<Len(t), Len(t[1]), Len(t[1][1])>>
Shape2(t) == <<Len(t), Len(t[1])>>

C2_UnobservedCurveKeepsZero ==
    ElementDone =>
        \A p \in Positions :
            cutoff_per_curve[ordering[p]] = 0 => id_curve[p] = 0

\* C3: every context record carries the real id of its curve, and so does
\* every record of a curve observed in context; the positive ids of the
\* context prefix are as many as the curves with cutoff_per_curve > 0; the
\* sequence has exactly seq_len records.
C3_ContextCarriesRealIds ==
    ElementDone =>
        /\ \A p \in Positions :
              (p - 1 < args.single_eval_pos \/ cutoff_per_curve[ordering[p]] > 0)
                  => id_curve[p] = ordering[p] + 1
        /\ Cardinality({id_curve[p] : p \in 1..args.single_eval_pos} \ {0})
              = Cardinality({cid \in Curves(args.seq_len) : cutoff_per_curve[cid] > 0})
        /\ Len(id_curve) = args.seq_len
        /\ \A b \in 1..Len(x) : Len(x[b]) = args.seq_len /\ Len(y[b]) = args.seq_len

\* C3 witness: a curve observed in context that is also queried, next to a
\* curve that is queried only.
C3_Witness ==
    /\ ElementDone
    /\ \E p, r \in Positions :
          /\ p - 1 < args.single_eval_pos
          /\ r - 1 >= args.single_eval_pos
          /\ ordering[p] = ordering[r]
          /\ id_curve[r] = ordering[r] + 1
    /\ \E cid \in Curves(args.seq_len) :
          epochs_per_curve[cid] > 0 /\ cutoff_per_curve[cid] = 0

\* C4 (as claimed, seq_len and single_eval_pos within the bounds of the
\* model): batch_size = 2, num_features = 3, pow3 = True returns x of shape
\* (seq_len, 2, 4) and y, target_y of shape (seq_len, 2).
C4_ShapeAsClaimed ==
    (pc = "returned" /\ args.batch_size = 2 /\ args.num_features = 3
        /\ args.hyperparameters.pow3)
        => /\ Shape3(result.x) = <<args.seq_len, 2, 4>>
           /\ Shape2(result.y) = <<args.seq_len, 2>>
           /\ Shape2(result.target_y) = <<args.seq_len, 2>>

\* C4 (amended): every returned batch has x of shape
\* (seq_len, batch_size, 2 + num_params) with 1 <= num_params <= num_features - 2
\* and y, target_y of shape (seq_len, batch_size); with num_features = 3 the
\* last dimension of x is 3.
C4_Shape ==
    pc = "returned" =>
        /\ Shape3(result.x) = <<args.seq_len, args.batch_size, 2 + num_params>>
        /\ Shape2(result.y) = <<args.seq_len, args.batch_size>>
        /\ Shape2(result.target_y) = <<args.seq_len, args.batch_size>>
        /\ num_params \in 1..(args.num_features - 2)
        /\ args.num_features = 3 => Shape3(result.x)[3] = 3

\* C4 witness: the call of the claim has returned.
C4_Witness ==
    /\ pc = "returned"
    /\ args.batch_size = 2
    /\ args.num_features = 3
    /\ args.hyperparameters.pow3
    /\ args.seq_len = 2
    /\ args.single_eval_pos = 1
    /\ Shape3(result.x) = <<2, 2, 3>>

\* C5: in every batch every column-0 entry is an integer of 0..seq_len and
\* every column-1 entry is a level k / n_levels with 1 <= k <= n_levels,
\* for every n_levels >= 1.
C5_ColumnRanges ==
    \A b \in 1..Len(x) : \A p \in 1..Len(x[b]) :
        /\ x[b][p][1] \in 0..args.seq_len
        /\ x[b][p][2][2] \in 1..MaxLevels
        /\ x[b][p][2][1] \in 1..x[b][p][2][2]

\* C5 witness: a batch element with the largest id, the id 0, progress 1
\* and a progress below 1.
C5_Witness ==
    /\ ElementDone
    /\ \E p \in Positions : id_curve[p] = args.seq_len
    /\ \E p \in Positions : id_curve[p] = 0
    /\ \E p \in Positions : epoch[p][1] = epoch[p][2]
    /\ \E p \in Positions : epoch[p][1] < epoch[p][2]

(***************************************************************************)
(* Properties of the ordering loop of multicurves_with_configurations      *)
(***************************************************************************)
\* the ordering loop of a batch element is running under one of the policies
InOrdering == pc = "ordering" /\ args.hyperparameters.ordering \in Policies

TotalSteps == args.hyperparameters.ncurves * args.hyperparameters.nepochs

\* the ordering loop was left by an exception of one of its steps
OrderingAborted == pc \in {"ValueError", "IndexError"} /\ Len(epoch) > 0

\* C7: under URS, BFS, DFS and SoftGreedy every step of the ordering loop
\* selects a curve whose counter is below nepochs (no step ends in the
\* ValueError of an empty candidate list nor in an index past the curve),
\* raises that counter by exactly one and leaves the other counters alone;
\* after the last step every counter equals nepochs.
C7_EveryStepAdvancesOneCurve ==
    [][(InOrdering /\ i < TotalSteps) =>
            /\ pc' = "ordering"
            /\ i' = i + 1
            /\ \E selected \in Curves(args.hyperparameters.ncurves) :
                  /\ cutoff[selected] < args.hyperparameters.nepochs
                  /\ cutoff' = [cutoff EXCEPT ![selected] = @ + 1]
            /\ i' = TotalSteps =>
                  \A j \in Curves(args.hyperparameters.ncurves) :
                      cutoff'[j] = args.hyperparameters.nepochs]_vars

\* C7 witness: a random policy has finished two curves of two epochs each,
\* leaving the first curve for the second and coming back to it.
C7_Witness ==
    /\ InOrdering
    /\ args.hyperparameters.ordering \in {"URS", "SoftGreedy"}
    /\ i = TotalSteps
    /\ TotalSteps = 4
    /\ id_curve[1] # id_curve[2]
    /\ id_curve[1] = id_curve[3]
    /\ \A j \in Curves(2) : cutoff[j] = 2

\* C8: with SoftGreedy and ncurves = 1 no step fails and the single curve is
\* selected at every step: the epoch column is the run 1, 2, ..., nepochs,
\* the run DFS produces for one curve.
C8_SingleCurveSoftGreedyIsDfs ==
    (pc \in {"ordering", "ValueError", "IndexError"}
        /\ args.hyperparameters.ordering \in {"SoftGreedy", "DFS"}
        /\ args.hyperparameters.ncurves = 1)
        => /\ ~OrderingAborted
           /\ pc = "ordering" =>
                /\ \A p \in 1..i : epoch[p] = p /\ id_curve[p] = ids[0]
                /\ cutoff[0] = i
                /\ i <= args.hyperparameters.nepochs

\* C8 witness: SoftGreedy has finished a single curve of more than one epoch.
C8_Witness ==
    /\ pc = "ordering"
    /\ args.hyperparameters.ordering = "SoftGreedy"
    /\ args.hyperparameters.ncurves = 1
    /\ args.hyperparameters.nepochs > 1
    /\ i = args.hyperparameters.nepochs
    /\ epoch = [p \in 1..args.hyperparameters.nepochs |-> p]

(***************************************************************************)
(* Properties of the calibration table of hpo_lc_pfn_bnn3c.DatasetPrior    *)
(***************************************************************************)
\* C9: once DatasetPrior.output_sorted is built no operation changes it:
\* constructions, new_dataset, output_for_config, curves_for_configs and the
\* uniform / normal / beta / gamma / exponential transforms leave it as it is.
C9_TableNeverChangesOnceBuilt ==
    [][output_sorted # None => output_sorted' = output_sorted]_vars

\* C9 witness: the table was built for one network; a later construction of
\* another shape, a new_dataset of it and a curves_for_configs have followed.
C9_Witness ==
    /\ output_sorted # None
    /\ prior # None
    /\ ShapeOf(prior) # table_shape
    /\ prior.dataset > 1
    /\ returned # None
    /\ returned.op = "curves_for_configs"

\* a method of the instance has just looked a network output up in the table
LookupStep == returned' # returned /\ returned'.op # "output_for_config"

\* C10 (as claimed): the table is kept per (input-dimension,
\* output-dimension) shape: an instance never looks outputs up in a table
\* built by a network of another shape than its own.
C10_LookupsUseTableOfOwnShape ==
    [][LookupStep => table_shape = ShapeOf(prior)]_vars


(***************************************************************************)
(* Determinism of get_batch                                                *)
(***************************************************************************)
\* a call has ended that had the configuration of the reference call and
\* started from the same state of the seeded generators
Repeated == Ended /\ reference # None /\ SameStart(reference, Run)

C11_TableBuiltOnceForAllThreads ==
    /\ builds <= 1
    /\ \A t1, t2 \in Threads :
          (threads[t1].pc = "read" /\ threads[t2].pc = "read")
              => threads[t1].table = threads[t2].table


(***************************************************************************)
(* The values passed to the inverse CDFs                                   *)
(***************************************************************************)
\* a method of DatasetPrior returned values computed from the table
Looked == returned # None /\ returned.op \in Transforms \cup {"curves_for_configs"}

\* the fraction <<numerator, denominator>> lies strictly between 0 and 1
StrictlyInside(u) == 0 < u[1] /\ u[1] < u[2]

\* C12: for a sorted table of length N and any network output, also one
\* below the minimum (rank 0) or above the maximum (rank N), the rank lies
\* in 0..N and the unit value handed to the inverse CDF of normal, beta,
\* gamma or exponential lies strictly between 0 and 1.
C12_UnitValueStrictlyInside ==
    Looked =>
        /\ \A j \in 1..(Len(output_sorted) - 1) : output_sorted[j] <= output_sorted[j + 1]
        /\ \A j \in 1..Len(returned.outputs) :
              SearchSortedLeft(output_sorted, returned.outputs[j]) \in 0..Len(output_sorted)
        /\ \A j \in 1..Len(returned.values) :
              returned.values[j].kind # "uniform" => StrictlyInside(returned.values[j].u)

\* one call of curves_for_configs with a table of 24 entries that made a
\* gamma draw at rank N and a normal draw at rank 0
C12_Witness ==
    /\ Looked
    /\ returned.op = "curves_for_configs"
    /\ Len(output_sorted) = CombOutputs
    /\ output_sorted[1] # output_sorted[CombOutputs]
    /\ \E j, k \in 1..Len(returned.values) :
          /\ returned.values[j].kind = "gamma"
          /\ SearchSortedLeft(output_sorted, returned.outputs[j]) = Len(output_sorted)
          /\ returned.values[k].kind = "normal"
          /\ SearchSortedLeft(output_sorted, returned.outputs[k]) = 0


(***************************************************************************)
(* Errors of get_batch                                                     *)
(***************************************************************************)
\* C13: multicurves get_batch called with an ordering name other than URS,
\* BFS, DFS or SoftGreedy ends in an error and returns no batch, whatever
\* its other arguments and hyperparameters are.
C13_UnknownOrderingIsFatal ==
    (Ended /\ args.hyperparameters.ordering \notin Policies)
        => pc # "returned" /\ result = None


\* the call generates its batch: it is not served from chunk files
Generates(a) ==
    "load_path" \notin DOMAIN a.hyperparameters \/ ~a.hyperparameters.load_path

\* the call failed its assertion with nothing sampled and nothing returned
FailedFast ==
    /\ pc = "AssertionError"
    /\ result = None
    /\ num_params = 0 /\ dataset_prior = None /\ dataset = None /\ curves = None
    /\ output_sorted = None /\ mc_output_sorted = None
    /\ x = <<>> /\ y = <<>>

NepsEnded == neps # None

\* C16: neps.run raises ValueError when root_directory is None, whatever the
\* searcher argument is, and before metahyper.run is started.
C16_NoRootDirectoryIsValueError ==
    (NepsEnded /\ neps.args.root_directory = None)
        => neps.pc = "ValueError" /\ neps.metahyper = None

\* C17: neps.run raises ValueError whenever working_directory is among the
\* searcher keyword arguments, before a searcher is built and before
\* metahyper.run is started.
C17_WorkingDirectoryIsValueError ==
    (NepsEnded /\ "working_directory" \in neps.args.searcher_kwargs)
        => /\ neps.pc = "ValueError"
           /\ neps.searcher_instance = None
           /\ neps.metahyper = None
           /\ neps.warnings = {}

\* run was given working_directory next to budget, a root directory and a
\* searcher that would otherwise have been built
C17_Witness ==
    /\ NepsEnded
    /\ neps.args.searcher_kwargs = {"working_directory", "budget"}
    /\ neps.args.root_directory # None
    /\ neps.args.searcher = [type |-> "str", name |-> "hyperband"]
    /\ neps.args.pipeline_space.kind = "parameters"
    /\ neps.pc = "ValueError"

\* the curves of the element generated last that own a position
CurvesWithEpochs == {cid \in Curves(args.seq_len) : epochs_per_curve[cid] > 0}

\* the positions of the sequence that curve cid owns, in sequence order
PositionsOf(cid) == {p \in Positions : ordering[p] = cid}

\* C18: in get_batch, for every curve with epochs_per_curve > 0:
\* epochs_per_curve <= n_levels, the first cutoff_per_curve positions of the
\* curve are 1/n_levels, ..., cutoff/n_levels in that order, every remaining
\* position is a level of (cutoff_per_curve, n_levels] over n_levels, and no
\* two records of the curve carry the same progress position.
C18_CurvePositions ==
    ElementDone =>
        \A cid \in CurvesWithEpochs :
            /\ epochs_per_curve[cid] <= n_levels
            /\ Len(curve_xs[cid]) = epochs_per_curve[cid]
            /\ \A k \in 1..cutoff_per_curve[cid] : curve_xs[cid][k] = <<k, n_levels>>
            /\ \A k \in (cutoff_per_curve[cid] + 1)..epochs_per_curve[cid] :
                   /\ curve_xs[cid][k][2] = n_levels
                   /\ curve_xs[cid][k][1] \in (cutoff_per_curve[cid] + 1)..n_levels
            /\ \A p, q \in PositionsOf(cid) :
                   p # q => x[Len(x)][p][2] # x[Len(x)][q][2]

\* C18 witness: an element with a curve that owns as many positions as there
\* are levels, one observed and one queried, and a second curve.
C18_Witness ==
    /\ ElementDone
    /\ n_levels = 2
    /\ \E cid \in CurvesWithEpochs :
          /\ cutoff_per_curve[cid] = 1
          /\ epochs_per_curve[cid] = n_levels
    /\ Cardinality(CurvesWithEpochs) = 2

\* line 393: curves(torch.from_numpy(x_), cid) is handed x_ as it was filled
EvaluatedOn(cid) == [k \in 1..Len(curve_xs[cid]) |-> curve_xs[cid][k][1]]

Ascending(s) == \A k \in 1..(Len(s) - 1) : s[k] <= s[k + 1]

\* lines 400-410: the record at position p is a context record
IsContext(p) == p - 1 < args.single_eval_pos

\* the level of the record at position p of the element generated last
LevelAt(p) == x[Len(x)][p][2][1]

\* C19: each curve's model is evaluated on its positions sorted ascending,
\* and the records of one curve, read in sequence order, carry monotonically
\* non-decreasing progress positions, context and query records alike.
C19_PositionsAscending ==
    ElementDone =>
        \A cid \in CurvesWithEpochs :
            /\ Ascending(EvaluatedOn(cid))
            /\ \A p, q \in PositionsOf(cid) : p < q => LevelAt(p) <= LevelAt(q)

\* C19 (amended): each curve's model is evaluated on its positions in the
\* order they were filled in, the observed levels ascending and before the
\* drawn query levels; of two records of one curve, read in sequence order,
\* the later carries the greater position whenever the earlier is a context
\* record; each record takes the curve's next unconsumed position.
C19_ContextPositionsAscending ==
    ElementDone =>
        \A cid \in CurvesWithEpochs :
            /\ Ascending(SubSeq(EvaluatedOn(cid), 1, cutoff_per_curve[cid]))
            /\ \A k \in 1..cutoff_per_curve[cid] :
               \A m \in (cutoff_per_curve[cid] + 1)..epochs_per_curve[cid] :
                   EvaluatedOn(cid)[k] < EvaluatedOn(cid)[m]
            /\ \A p, q \in PositionsOf(cid) :
                   (p < q /\ IsContext(p)) => LevelAt(p) < LevelAt(q)
            /\ \A p \in PositionsOf(cid) :
                   LevelAt(p) = EvaluatedOn(cid)[Owned(ordering, cid, p)]

\* C19 witness: a curve with a context record and a later query record, in
\* an element that also holds a query record of another curve.
C19_Witness ==
    /\ ElementDone
    /\ \E cid \in CurvesWithEpochs :
       \E p, q \in PositionsOf(cid) : p < q /\ IsContext(p) /\ ~IsContext(q)
    /\ \E p \in Positions : ~IsContext(p) /\ id_curve[p] = 0

\* curves_for_configs was the last method called on the instance
CurvesForConfigsCalled ==
    returned # None /\ returned.op \in {"curves_for_configs", "IndexError"}

\* the index a draw of the returned call was computed from, read back from
\* its value: uniform gives index / len, the others the unit value
IndexRead(k) ==
    IF returned.values[k].kind = "uniform" THEN returned.values[k].u[1]
    ELSE (returned.values[k].u[1] - Len(output_sorted)) \div (2 * (Len(output_sorted) - 1))

\* C20: MyRNG consumes output coordinates in order: the draw made after k
\* others reads coordinate k and advances the counter by one, and
\* curves_for_configs makes exactly num_outputs draws (3 for the pow3 family,
\* 24 for the composite family), so the counter never indexes past the
\* output vector.
C20_MyRNGConsumesCoordinatesInOrder ==
    CurvesForConfigsCalled =>
        /\ returned.op # "IndexError"
        /\ Len(returned.values) = Len(returned.outputs)
        /\ returned.rng4config.counter = Len(returned.outputs)
        /\ Len(returned.outputs) \in {Pow3Outputs, CombOutputs}
        /\ \A k \in 1..Len(returned.values) :
               IndexRead(k) = SearchSortedLeft(output_sorted, returned.outputs[k])

\* C20 witness: a call for the composite family on outputs whose coordinates
\* fall below, inside and above the table.
C20_Witness ==
    /\ CurvesForConfigsCalled
    /\ returned.rng4config.counter = CombOutputs
    /\ \A v \in RawOutputs : \E k \in 1..CombOutputs : returned.outputs[k] = v

RECURSIVE SumOf(_)
SumOf(s) == IF s = <<>> THEN 0 ELSE Head(s) + SumOf(Tail(s))

\* every call of the training loop so far asked for at most chunk_size samples
WithinChunkSize ==
    trainer # None /\ \A c \in 1..Len(trainer.calls) : trainer.calls[c] <= trainer.chunk_size

\* column k mod chunk_size of chunk (k div chunk_size) mod n_chunks
SampleOf(k) ==
    LET c == (k \div trainer.chunk_size) % trainer.n_chunks
        col == k % trainer.chunk_size
    IN  [x |-> <<"x", c, col>>, y |-> <<"y", c, col>>]

\* C21: in load_path mode, with chunk_size and n_chunks fixed and every
\* batch_size at most chunk_size, every call returns exactly batch_size
\* samples, seq_counter grows by exactly batch_size, and the k-th sample
\* served overall is column k mod chunk_size of chunk
\* (k div chunk_size) mod n_chunks, also across a prefetch.
C21_ChunksServedSequentially ==
    WithinChunkSize =>
        /\ pc # "AssertionError"
        /\ trainer.failed = 0
        /\ Len(trainer.served) = SumOf(trainer.calls)
        /\ AttrsAtEntry.seq_counter = SumOf(trainer.calls)
        /\ pc = "returned" => Len(result.x) = args.batch_size /\ Len(result.y) = args.batch_size
        /\ \A k \in 0..(Len(trainer.served) - 1) : trainer.served[k + 1] = SampleOf(k)

\* C21 witness: a batch that straddles two chunks has been served after the
\* samples have wrapped around to the first chunk.
C21_Witness ==
    /\ WithinChunkSize
    /\ pc = "returned"
    /\ trainer.n_chunks = 2
    /\ trainer.chunk_size = 2
    /\ Len(trainer.served) = 5
    /\ result.x = <<SampleOf(3).x, SampleOf(4).x>>

\* line 237: id_curve[i] = ids[selected]; the curve a written record belongs
\* to is the one the shuffled map gives the record's id
CurveOfRecord(p) == CHOOSE j \in Curves(args.hyperparameters.ncurves) : ids[j] = id_curve[p]

\* the number of records among the first p that belong to the curve of record p
RankInCurve(p) == Cardinality({q \in 1..p : id_curve[q] = id_curve[p]})

\* C22: in multicurves get_batch, under BFS record i belongs to curve
\* i mod ncurves with epoch (i div ncurves) + 1, under DFS to curve
\* i div nepochs with epoch (i mod nepochs) + 1; under every policy the
\* records of one curve carry epochs 1, 2, ..., nepochs in sequence order,
\* the value of a record is its curve's value at its epoch, and the shuffled
\* id map gives distinct curves distinct ids of 0..ncurves-1.
C22_RecordsOfDeterministicPolicies ==
    InOrdering =>
        /\ \A j, k \in Curves(args.hyperparameters.ncurves) :
               /\ ids[j] \in 0..(args.hyperparameters.ncurves - 1)
               /\ j # k => ids[j] # ids[k]
        /\ \A p \in 1..i :
               /\ args.hyperparameters.ordering = "BFS" =>
                      /\ id_curve[p] = ids[(p - 1) % args.hyperparameters.ncurves]
                      /\ epoch[p] = ((p - 1) \div args.hyperparameters.ncurves) + 1
               /\ args.hyperparameters.ordering = "DFS" =>
                      /\ id_curve[p] = ids[(p - 1) \div args.hyperparameters.nepochs]
                      /\ epoch[p] = ((p - 1) % args.hyperparameters.nepochs) + 1
               /\ epoch[p] = RankInCurve(p)
               /\ epoch[p] \in 1..args.hyperparameters.nepochs
               /\ curve_val[p] = curves[CurveOfRecord(p)][epoch[p]]
               /\ \A c \in 1..Len(config[p]) : config[p][c] = CurveOfRecord(p)
        /\ i = TotalSteps =>
               \A j \in Curves(args.hyperparameters.ncurves) :
                   Cardinality({p \in 1..i : id_curve[p] = ids[j]})
                       = args.hyperparameters.nepochs

\* C22 witness: BFS has placed every record of two curves of two epochs
\* each, the shuffle having swapped the two ids.
C22_Witness ==
    /\ InOrdering
    /\ args.hyperparameters.ordering = "BFS"
    /\ args.hyperparameters.ncurves = 2
    /\ args.hyperparameters.nepochs = 2
    /\ i = TotalSteps
    /\ ids[0] = 1
    /\ id_curve = <<1, 0, 1, 0>>
    /\ epoch = <<1, 1, 2, 2>>

\* the call passed the assertions of get_batch (bnn3c line 330, multicurves
\* lines 151-152) and names an ordering policy the code knows
Accepted(a) ==
    /\ Generates(a)
    /\ ~Malformed(a)
    /\ "ordering" \in DOMAIN a.hyperparameters => a.hyperparameters.ordering \in Policies

\* C24: every num_features accepted by the assertion of get_batch
\* (num_features >= 2) leads to a number of active hyperparameters with
\* 1 <= num_params <= num_features and to a returned batch: the draw of
\* num_params never fails and no configuration vector is empty, in both
\* variants and with fix_nparams on or off.
C24_NumParamsWellDefined ==
    (Ended /\ Accepted(args)) =>
        /\ pc = "returned"
        /\ num_params \in 1..args.num_features
        /\ \A p \in 1..Len(result.x) : \A b \in 1..Len(result.x[p]) :
               Len(result.x[p][b]) > 2

\* the losses of the single-objective evaluations without error, in order
RECURSIVE SingleObjective(_)
SingleObjective(evs) ==
    IF evs = <<>> THEN <<>>
    ELSE IF Head(evs).kind = "result" /\ Head(evs).loss[1] \in {"float", "nan"}
    THEN <<Head(evs).loss>> \o SingleObjective(Tail(evs))
    ELSE SingleObjective(Tail(evs))

\* the best-loss trajectory file as the floats of its lines
Trajectory ==
    IF files.best_loss_trajectory = None THEN <<>>
    ELSE [k \in 1..Len(files.best_loss_trajectory) |->
             ParseFloat(files.best_loss_trajectory[k])]

Entries(file) == IF file = None THEN 0 ELSE Len(file)

\* m is one of the losses and none of the losses that are numbers is below it
IsMinimum(m, ls) ==
    /\ \E k \in 1..Len(ls) : ls[k] = m
    /\ \A k \in 1..Len(ls) : IsNaN(ls[k]) \/ (~IsNaN(m) /\ m[2] <= ls[k][2])

\* C23: after any sequence of post-evaluation hook calls on one root
\* directory the best-loss trajectory file holds a strictly decreasing
\* sequence of losses whose last entry is the minimum loss of all
\* single-objective evaluations without error so far; an evaluation that is
\* an error or multi-objective appends nothing to the best-loss files, and
\* every evaluation appends one entry to the all-losses file.
C23_BestLossTrajectory ==
    (neps # None /\ "evaluations" \in DOMAIN neps) =>
        LET singles == SingleObjective(neps.evaluations)
        IN  /\ \A k \in 1..(Len(Trajectory) - 1) : Greater(Trajectory[k], Trajectory[k + 1])
            /\ Len(singles) > 0 =>
                   /\ Len(Trajectory) > 0
                   /\ IsMinimum(Trajectory[Len(Trajectory)], singles)
            /\ Len(singles) = 0 =>
                   /\ files.best_loss_trajectory = None
                   /\ files.best_loss_with_config_trajectory = None
            /\ Entries(files.best_loss_with_config_trajectory) = Len(Trajectory)
            /\ Entries(files.all_losses_and_configs) = Len(neps.evaluations)
====
